---- MODULE Spec2Model ----
(***************************************************************************)
(* Dynamic metadata schema registry (DynamicSchemaManager) and the        *)
(* change-approval gate in front of it (SchemaApprovalManager).           *)
(*                                                                         *)
(* Python objects are modelled as a heap: field_objs holds the SchemaField *)
(* instances and a version's field map holds references into it, because   *)
(* a new version is built from current.fields.copy(), a shallow copy that  *)
(* shares the SchemaField instances with the version it was cloned from.   *)
(* requests holds every SchemaChangeRequest instance ever constructed;     *)
(* pending_requests and approval_history hold references (request ids).    *)
(* Optional values are sets of at most one element: None is {}.            *)
(* Version strings are sequences of one-character strings.                 *)
(***************************************************************************)
EXTENDS Integers, Sequences, FiniteSets, TLC

VARIABLES
    schemas,            \* DynamicSchemaManager.schemas: version string -> SchemaVersion
    field_objs,         \* heap of SchemaField instances, addressed by index
    migrations,         \* DynamicSchemaManager.migrations
    core_fields,        \* DynamicSchemaManager.core_fields: name -> SchemaField reference
    schemas_json,       \* contents of schemas.json
    migrations_json,    \* contents of migrations.json
    requests,           \* heap of SchemaChangeRequest instances: request id -> object
    pending_requests,   \* SchemaApprovalManager.pending_requests, in insertion order
    approval_history,   \* SchemaApprovalManager.approval_history
    clock,              \* number of reviewed_at stamps taken from datetime.now() so far
    last,               \* the call that produced this state, with its return value
    threads             \* per thread inside add_field: its position and its locals

regVars == <<schemas, field_objs, migrations, core_fields, schemas_json, migrations_json>>
gateVars == <<requests, pending_requests, approval_history, clock>>
vars == <<schemas, field_objs, migrations, core_fields, schemas_json, migrations_json,
          requests, pending_requests, approval_history, clock, last, threads>>

-----------------------------------------------------------------------------
(* Bounds of the model *)

MaxRequests == 2
MaxVersions == 3
MaxMigrations == 2

-----------------------------------------------------------------------------
(* Python values *)

None == {}
Some(x) == {x}
The(o) == CHOOSE x \in o : TRUE

\* A local variable of the code is bound once, as the bound variable of a
\* singleton set: The({body : local \in {value}}) is body with local = value.

\* dict.get(key, default)
Get(d, key, default) == IF key \in DOMAIN d THEN d[key] ELSE default

EmptyDict == [k \in {} |-> TRUE]

RECURSIVE SeqToSet(_)
SeqToSet(s) == IF s = <<>> THEN {} ELSE {Head(s)} \cup SeqToSet(Tail(s))

\* the order in which the entries of a dict or set are visited
RECURSIVE Enumerate(_)
Enumerate(S) ==
    IF S = {} THEN <<>>
    ELSE The({<<x>> \o Enumerate(S \ {x}) : x \in {CHOOSE y \in S : TRUE}})

\* the list s without the entries equal to x
RECURSIVE Without(_, _)
Without(s, x) ==
    IF s = <<>> THEN <<>>
    ELSE IF Head(s) = x THEN Without(Tail(s), x)
    ELSE <<Head(s)>> \o Without(Tail(s), x)

-----------------------------------------------------------------------------
(* Version strings *)

Digits == <<"0", "1", "2", "3", "4", "5", "6", "7", "8", "9">>
IsDigit(c) == \E i \in 1..Len(Digits) : Digits[i] = c
DigitValue(c) == (CHOOSE i \in 1..Len(Digits) : Digits[i] = c) - 1

\* int(s) for a string of decimal digits
RECURSIVE int(_)
int(s) ==
    IF Len(s) = 1 THEN DigitValue(s[1])
    ELSE Len(Digits) * int(SubSeq(s, 1, Len(s) - 1)) + DigitValue(s[Len(s)])

\* str(n), as the f-strings of _increment_version format an int
RECURSIVE str(_)
str(n) ==
    IF n < Len(Digits) THEN <<Digits[n + 1]>>
    ELSE str(n \div Len(Digits)) \o <<Digits[(n % Len(Digits)) + 1]>>

\* s.split('.')
RECURSIVE split(_)
split(s) ==
    IF \A i \in 1..Len(s) : s[i] # "."
    THEN <<s>>
    ELSE LET i == CHOOSE j \in 1..Len(s) : s[j] = "." /\ \A k \in 1..(j - 1) : s[k] # "."
         IN <<SubSeq(s, 1, i - 1)>> \o split(SubSeq(s, i + 1, Len(s)))

\* SchemaVersion.validate_version: ^\d+\.\d+\.\d+$
validate_version(v) ==
    \E parts \in {split(v)} :
       /\ Len(parts) = 3
       /\ \A p \in 1..3 : Len(parts[p]) > 0 /\ \A i \in 1..Len(parts[p]) : IsDigit(parts[p][i])

\* a parse that keeps only the first digit of each component
_parse_version_first_digit(version) ==
    The({<<DigitValue(parts[1][1]), DigitValue(parts[2][1]), DigitValue(parts[3][1])>>
         : parts \in {split(version)}})

_parse_version(version) ==
    The({<<int(parts[1]), int(parts[2]), int(parts[3])>> : parts \in {split(version)}})

\* Python's tuple order on (major, minor, patch)
TupleLess(a, b) ==
    \/ a[1] < b[1]
    \/ a[1] = b[1] /\ a[2] < b[2]
    \/ a[1] = b[1] /\ a[2] = b[2] /\ a[3] < b[3]

FormatVersion(major, minor, patch) ==
    str(major) \o <<".">> \o str(minor) \o <<".">> \o str(patch)

\* _increment_version keeping the lower components
_increment_version_no_reset(version, increment_type) ==
    The({CASE increment_type = "major" -> FormatVersion(t[1] + 1, t[2], t[3])
           [] increment_type = "minor" -> FormatVersion(t[1], t[2] + 1, t[3])
           [] increment_type = "patch" -> FormatVersion(t[1], t[2], t[3] + 1)
         : t \in {_parse_version(version)}})

_increment_version(version, increment_type) ==
    The({CASE increment_type = "major" -> FormatVersion(t[1] + 1, 0, 0)
           [] increment_type = "minor" -> FormatVersion(t[1], t[2] + 1, 0)
           [] increment_type = "patch" -> FormatVersion(t[1], t[2], t[3] + 1)
         : t \in {_parse_version(version)}})

BaseVersion == <<"1", ".", "0", ".", "0">>

-----------------------------------------------------------------------------
(* Field & validation model *)

FieldTypes == {"string", "integer", "float", "boolean", "datetime", "list", "dict", "json"}

ValidationKeys ==
    {"required", "min_length", "max_length", "pattern", "min_value", "max_value",
     "allowed_values"}

\* FieldValidation(**data): absent rules default to None, required to False
FieldValidation(data) ==
    [required   |-> Get(data, "required", FALSE),
     min_length |-> IF "min_length" \in DOMAIN data THEN Some(data["min_length"]) ELSE None,
     max_length |-> IF "max_length" \in DOMAIN data THEN Some(data["max_length"]) ELSE None,
     pattern    |-> IF "pattern" \in DOMAIN data THEN Some(data["pattern"]) ELSE None,
     min_value  |-> IF "min_value" \in DOMAIN data THEN Some(data["min_value"]) ELSE None,
     max_value  |-> IF "max_value" \in DOMAIN data THEN Some(data["max_value"]) ELSE None,
     allowed_values |-> IF "allowed_values" \in DOMAIN data
                        THEN Some(data["allowed_values"]) ELSE None]

\* SchemaField(...): deprecated, deprecated_in_version keep their defaults
SchemaField(name, field_type, description, validation, is_core, added_in_version) ==
    [name |-> name,
     field_type |-> field_type,
     description |-> description,
     validation |-> validation,
     is_core |-> is_core,
     deprecated |-> FALSE,
     added_in_version |-> added_in_version,
     deprecated_in_version |-> None]

TitleMaxLength == 200

CoreFieldNames == <<"content_id", "title", "content_type", "created_at", "updated_at">>

\* the five SchemaField instances built in __init__, in construction order
CoreFieldObjects ==
    <<SchemaField("content_id", "string", "content id",
                  FieldValidation([required |-> TRUE]), TRUE, BaseVersion),
      SchemaField("title", "string", "content title",
                  FieldValidation([required |-> TRUE, max_length |-> TitleMaxLength]), TRUE, BaseVersion),
      SchemaField("content_type", "string", "content type",
                  FieldValidation([required |-> TRUE]), TRUE, BaseVersion),
      SchemaField("created_at", "datetime", "created at",
                  FieldValidation([required |-> TRUE]), TRUE, BaseVersion),
      SchemaField("updated_at", "datetime", "updated at",
                  FieldValidation([required |-> TRUE]), TRUE, BaseVersion)>>

\* SchemaVersion(version=..., fields=...): is_active defaults to True.  The
\* field map is a new dict holding the same SchemaField instances.
SchemaVersion(version, fields) ==
    [version |-> version, is_active |-> TRUE, fields |-> fields]

SchemaMigration(from_version, to_version, migration_type, field_name) ==
    [from_version |-> from_version,
     to_version |-> to_version,
     migration_type |-> migration_type,
     field_name |-> field_name]

-----------------------------------------------------------------------------
(* Schema version registry.  R is the manager's state:                     *)
(* [schemas, field_objs, migrations, core_fields, schemas_json,            *)
(*  migrations_json].                                                      *)

\* the version string of the SchemaVersion get_current_schema returns
get_current_schema(R) ==
    The({IF active_schemas = {} THEN BaseVersion
         ELSE The({CHOOSE v \in active_schemas :
                      \A w \in active_schemas : ~TupleLess(key[v], key[w])
                   : key \in {[v \in active_schemas |-> _parse_version(v)]}})
         : active_schemas \in {{v \in DOMAIN R.schemas : R.schemas[v].is_active}}})

-----------------------------------------------------------------------------
(* Data validation.  A runtime value is [type, val]: type is the name of   *)
(* its Python type, val a sequence of characters for str, an integer for   *)
(* int and float, a boolean for bool.                                      *)

PyStr(s) == [type |-> "str", val |-> s]
PyInt(i) == [type |-> "int", val |-> i]
PyFloat(i) == [type |-> "float", val |-> i]
PyBool(b) == [type |-> "bool", val |-> b]
PyDateTime(t) == [type |-> "datetime", val |-> t]
PyList == [type |-> "list", val |-> 0]
PyDict == [type |-> "dict", val |-> 0]

\* the types whose instances isinstance(value, expected_type) accepts; bool
\* is a subclass of int
_get_python_type(field_type) ==
    CASE field_type = "string" -> {"str"}
      [] field_type = "integer" -> {"int", "bool"}
      [] field_type = "float" -> {"float"}
      [] field_type = "boolean" -> {"bool"}
      [] field_type = "datetime" -> {"datetime"}
      [] field_type = "list" -> {"list"}
      [] field_type = "dict" -> {"dict"}
      [] field_type = "json" -> {"dict", "list", "str"}
      [] OTHER -> {"str"}

\* the number a value is in a comparison: True is 1, False is 0
Number(value) == IF value.type = "bool" THEN (IF value.val THEN 1 ELSE 0) ELSE value.val

IsNumber(value) == value.type \in {"int", "float", "bool"}

\* a == b in Python: numbers by value, everything else by type and value
PyEq(a, b) ==
    IF IsNumber(a) /\ IsNumber(b) THEN Number(a) = Number(b)
    ELSE a.type = b.type /\ a.val = b.val

LowerCase == {"a", "b", "c", "t", "x"}

\* re.match(pattern, value) for the patterns of the model: the match is
\* anchored at the start only
re_match(pattern, s) ==
    CASE pattern = "[a-z]+" -> Len(s) > 0 /\ s[1] \in LowerCase
      [] pattern = "[a-z]+$" -> Len(s) > 0 /\ \A i \in 1..Len(s) : s[i] \in LowerCase
      [] OTHER -> TRUE

ValidationError(kind, field_name) == [kind |-> kind, field |-> field_name]

\* `if validation.min_length and ...`: None and 0 are both falsy
Truthy(o) == o # None /\ The(o) # 0

_validate_field_value(field, value) ==
    IF value.type \notin _get_python_type(field.field_type)
    THEN <<ValidationError("type", field.name)>>
    ELSE (IF field.field_type = "string" /\ value.type = "str"
          THEN (IF Truthy(field.validation.min_length)
                   /\ Len(value.val) < The(field.validation.min_length)
                THEN <<ValidationError("min_length", field.name)>> ELSE <<>>)
               \o (IF Truthy(field.validation.max_length)
                      /\ Len(value.val) > The(field.validation.max_length)
                   THEN <<ValidationError("max_length", field.name)>> ELSE <<>>)
               \o (IF field.validation.pattern \notin {None, Some("")}
                      /\ ~re_match(The(field.validation.pattern), value.val)
                   THEN <<ValidationError("pattern", field.name)>> ELSE <<>>)
          ELSE <<>>)
         \o (IF field.field_type \in {"integer", "float"} /\ IsNumber(value)
             THEN (IF field.validation.min_value # None
                      /\ Number(value) < The(field.validation.min_value)
                   THEN <<ValidationError("min_value", field.name)>> ELSE <<>>)
                  \o (IF field.validation.max_value # None
                         /\ Number(value) > The(field.validation.max_value)
                      THEN <<ValidationError("max_value", field.name)>> ELSE <<>>)
             ELSE <<>>)
         \o (IF field.validation.allowed_values \notin {None, Some(<<>>)}
                /\ \A i \in 1..Len(The(field.validation.allowed_values)) :
                      ~PyEq(value, The(field.validation.allowed_values)[i])
             THEN <<ValidationError("allowed_values", field.name)>> ELSE <<>>)

\* the loop of validate_data over schema.fields.items(), names in dict order
RECURSIVE FieldErrors(_, _, _, _)
FieldErrors(R, schema, data, names) ==
    IF names = <<>> THEN <<>>
    ELSE The({(IF field.deprecated THEN <<>>
               ELSE IF field.validation.required /\ Head(names) \notin DOMAIN data
               THEN <<ValidationError("missing", Head(names))>>
               ELSE IF Head(names) \in DOMAIN data
               THEN _validate_field_value(field, data[Head(names)])
               ELSE <<>>)
              \o FieldErrors(R, schema, data, Tail(names))
              : field \in {R.field_objs[schema.fields[Head(names)]]}})

\* the loop of validate_data over the keys of data
RECURSIVE UnknownErrors(_, _)
UnknownErrors(schema, names) ==
    IF names = <<>> THEN <<>>
    ELSE (IF Head(names) \notin DOMAIN schema.fields
          THEN <<ValidationError("unknown", Head(names))>> ELSE <<>>)
         \o UnknownErrors(schema, Tail(names))

\* the same loop checking deprecated fields as well
validate_data_checks_deprecated(R, data, schema_version) ==
    IF schema_version # None /\ The(schema_version) \notin DOMAIN R.schemas
    THEN [valid |-> FALSE, errors |-> <<ValidationError("no_version", "")>>]
    ELSE The({[valid |-> errors = <<>>, errors |-> errors]
              : errors \in
                  {The({FieldErrors([R EXCEPT !.field_objs =
                                        [i \in DOMAIN @ |-> [@[i] EXCEPT !.deprecated = FALSE]]],
                                    schema, data, Enumerate(DOMAIN schema.fields))
                        \o UnknownErrors(schema, Enumerate(DOMAIN data))
                        : schema \in {IF schema_version = None
                                      THEN R.schemas[get_current_schema(R)]
                                      ELSE R.schemas[The(schema_version)]}})}})

validate_data(R, data, schema_version) ==
    IF schema_version # None /\ The(schema_version) \notin DOMAIN R.schemas
    THEN [valid |-> FALSE, errors |-> <<ValidationError("no_version", "")>>]
    ELSE The({[valid |-> errors = <<>>, errors |-> errors]
              : errors \in
                  {The({FieldErrors(R, schema, data, Enumerate(DOMAIN schema.fields))
                        \o UnknownErrors(schema, Enumerate(DOMAIN data))
                        : schema \in {IF schema_version = None
                                      THEN R.schemas[get_current_schema(R)]
                                      ELSE R.schemas[The(schema_version)]}})}})

\* the number of samples that carry the key field_name
UsageCount(data_samples, field_name) ==
    Cardinality({i \in 1..Len(data_samples) : field_name \in DOMAIN data_samples[i]})

\* analyze_schema_usage: a rate count / total is kept as <<count, total>>,
\* list(unknown_fields) as the set it is built from
analyze_schema_usage(R, data_samples) ==
    IF data_samples = <<>> THEN [error |-> "no data samples"]
    ELSE The({[total_samples |-> Len(data_samples),
               current_schema_version |-> current_schema.version,
               field_usage_stats |->
                   [n \in DOMAIN current_schema.fields |->
                       [usage_count |-> UsageCount(data_samples, n),
                        usage_rate |-> <<UsageCount(data_samples, n), Len(data_samples)>>,
                        missing_count |-> Len(data_samples) - UsageCount(data_samples, n),
                        is_required |->
                            R.field_objs[current_schema.fields[n]].validation.required,
                        is_core |-> R.field_objs[current_schema.fields[n]].is_core]],
               unknown_fields |->
                   UNION {DOMAIN data_samples[i] \ DOMAIN current_schema.fields
                          : i \in 1..Len(data_samples)},
               schema_compliance_rate |->
                   <<Cardinality({n \in DOMAIN current_schema.fields :
                                     UsageCount(data_samples, n) * 10 > 8 * Len(data_samples)}),
                     Cardinality(DOMAIN current_schema.fields)>>]
              : current_schema \in {R.schemas[get_current_schema(R)]}})

Suggestion(type, field_name, priority) ==
    [type |-> type, field_name |-> field_name, priority |-> priority]

\* suggest_schema_improvements: the three loops in order; a rate <<c, t>> is
\* below 0.1 when c * 10 < t and above 0.9 when c * 10 > 9 * t
suggest_schema_improvements(usage_analysis) ==
    IF "field_usage_stats" \notin DOMAIN usage_analysis THEN <<>>
    ELSE LET stats == usage_analysis.field_usage_stats
             names == Enumerate(DOMAIN stats)
             unknown_fields == Enumerate(usage_analysis.unknown_fields)
             Rare(n) == /\ ~stats[n].is_core
                        /\ ~stats[n].is_required
                        /\ stats[n].usage_rate[1] * 10 < stats[n].usage_rate[2]
             Frequent(n) == /\ ~stats[n].is_required
                            /\ stats[n].usage_rate[1] * 10 > 9 * stats[n].usage_rate[2]
             rare == SelectSeq(names, Rare)
             frequent == SelectSeq(names, Frequent)
         IN [i \in 1..Len(unknown_fields) |->
                Suggestion("add_field", unknown_fields[i], "medium")]
            \o [i \in 1..Len(rare) |-> Suggestion("deprecate_field", rare[i], "low")]
            \o [i \in 1..Len(frequent) |-> Suggestion("make_required", frequent[i], "medium")]

\* sorted(versions, key=_parse_version)
RECURSIVE SortedVersions(_)
SortedVersions(S) ==
    IF S = {} THEN <<>>
    ELSE The({<<v>> \o SortedVersions(S \ {v})
              : v \in {CHOOSE v \in S :
                          \A w \in S : ~TupleLess(_parse_version(w), _parse_version(v))}})

get_schema_evolution_history(R) ==
    LET sorted_versions == SortedVersions(DOMAIN R.schemas)
        ToVersion(version) == LET Test(m) == m.to_version = version
                              IN SelectSeq(R.migrations, Test)
    IN [i \in 1..Len(sorted_versions) |->
          [version |-> sorted_versions[i],
           is_active |-> R.schemas[sorted_versions[i]].is_active,
           field_count |-> Cardinality(DOMAIN R.schemas[sorted_versions[i]].fields),
           migrations |->
               [j \in 1..Len(ToVersion(sorted_versions[i])) |->
                   [type |-> ToVersion(sorted_versions[i])[j].migration_type,
                    field |-> ToVersion(sorted_versions[i])[j].field_name,
                    from_version |-> ToVersion(sorted_versions[i])[j].from_version]]]]

\* schema.model_dump() of one version: the field map by value
model_dump(R, v) ==
    [version |-> R.schemas[v].version,
     is_active |-> R.schemas[v].is_active,
     fields |-> [n \in DOMAIN R.schemas[v].fields |-> R.field_objs[R.schemas[v].fields[n]]]]

_save_schemas(R) ==
    [R EXCEPT !.schemas_json = [v \in DOMAIN R.schemas |-> model_dump(R, v)],
              !.migrations_json = R.migrations]

\* the common prologue of add_field, remove_field and modify_field: resolve the
\* target version and create it from the current version when it is absent.
\* raised is TRUE when SchemaVersion(version=target_version) raises.
\* the version creation with an empty field map instead of the clone
EnsureVersion_empty_fields(R, target_version, increment_type) ==
    The({IF tv \in DOMAIN R.schemas
         THEN [R |-> R, target_version |-> tv, raised |-> FALSE]
         ELSE IF ~validate_version(tv)
         THEN [R |-> R, target_version |-> tv, raised |-> TRUE]
         ELSE [R |-> [R EXCEPT !.schemas = (tv :> SchemaVersion(tv, EmptyDict)) @@ @],
               target_version |-> tv, raised |-> FALSE]
         : tv \in {IF target_version = None
                   THEN _increment_version(get_current_schema(R), increment_type)
                   ELSE The(target_version)}})

EnsureVersion(R, target_version, increment_type) ==
    The({IF tv \in DOMAIN R.schemas
         THEN [R |-> R, target_version |-> tv, raised |-> FALSE]
         ELSE IF ~validate_version(tv)
         THEN [R |-> R, target_version |-> tv, raised |-> TRUE]
         ELSE [R |-> [R EXCEPT !.schemas =
                          (tv :> SchemaVersion(tv, R.schemas[get_current_schema(R)].fields)) @@ @],
               target_version |-> tv, raised |-> FALSE]
         : tv \in {IF target_version = None
                   THEN _increment_version(get_current_schema(R), increment_type)
                   ELSE The(target_version)}})

add_field(R, field, target_version) ==
    The({IF e.raised THEN [R |-> R, ret |-> FALSE]
         ELSE IF field.name \in DOMAIN e.R.schemas[e.target_version].fields
         THEN [R |-> e.R, ret |-> FALSE]
         ELSE The({[R |-> _save_schemas(
                            IF e.target_version # BaseVersion
                            THEN [R1 EXCEPT !.migrations =
                                    Append(@, SchemaMigration(get_current_schema(R1),
                                                              e.target_version,
                                                              "add_field", field.name))]
                            ELSE R1),
                    ret |-> TRUE]
                   : R1 \in {[e.R EXCEPT
                               !.field_objs =
                                   Append(@, [field EXCEPT !.added_in_version = e.target_version]),
                               !.schemas[e.target_version].fields =
                                   (field.name :> (Len(e.R.field_objs) + 1)) @@ @]}})
         : e \in {EnsureVersion(R, target_version, "minor")}})

\* remove_field without the check for core fields
remove_field_any_field(R, field_name, target_version) ==
    The({IF e.raised THEN [R |-> R, ret |-> FALSE]
         ELSE IF field_name \notin DOMAIN e.R.schemas[e.target_version].fields
         THEN [R |-> e.R, ret |-> FALSE]
         ELSE [R |-> _save_schemas(
                       [e.R EXCEPT
                          !.field_objs[e.R.schemas[e.target_version].fields[field_name]] =
                              [@ EXCEPT !.deprecated = TRUE,
                                        !.deprecated_in_version = Some(e.target_version)],
                          !.migrations =
                              Append(@, SchemaMigration(e.target_version, e.target_version,
                                                        "remove_field", field_name))]),
               ret |-> TRUE]
         : e \in {EnsureVersion(R, target_version, "minor")}})

\* remove_field deleting the name from the target version's field map
remove_field_hard_delete(R, field_name, target_version) ==
    IF field_name \in DOMAIN R.core_fields THEN [R |-> R, ret |-> FALSE]
    ELSE
    The({IF e.raised THEN [R |-> R, ret |-> FALSE]
         ELSE IF field_name \notin DOMAIN e.R.schemas[e.target_version].fields
         THEN [R |-> e.R, ret |-> FALSE]
         ELSE [R |-> _save_schemas(
                       [e.R EXCEPT
                          !.schemas[e.target_version].fields =
                              [n \in DOMAIN @ \ {field_name} |-> @[n]],
                          !.migrations =
                              Append(@, SchemaMigration(e.target_version, e.target_version,
                                                        "remove_field", field_name))]),
               ret |-> TRUE]
         : e \in {EnsureVersion(R, target_version, "minor")}})

remove_field(R, field_name, target_version) ==
    IF field_name \in DOMAIN R.core_fields THEN [R |-> R, ret |-> FALSE]
    ELSE
    The({IF e.raised THEN [R |-> R, ret |-> FALSE]
         ELSE IF field_name \notin DOMAIN e.R.schemas[e.target_version].fields
         THEN [R |-> e.R, ret |-> FALSE]
         ELSE The({[R |-> _save_schemas(
                            [R1 EXCEPT !.migrations =
                               Append(@, SchemaMigration(get_current_schema(R1),
                                                         e.target_version,
                                                         "remove_field", field_name))]),
                    ret |-> TRUE]
                   : R1 \in {[e.R EXCEPT
                               !.field_objs[e.R.schemas[e.target_version].fields[field_name]] =
                                   [@ EXCEPT !.deprecated = TRUE,
                                             !.deprecated_in_version = Some(e.target_version)]]}})
         : e \in {EnsureVersion(R, target_version, "minor")}})

modify_field(R, field_name, new_field, target_version) ==
    The({IF e.raised THEN [R |-> R, ret |-> FALSE]
         ELSE IF field_name \notin DOMAIN e.R.schemas[e.target_version].fields
         THEN [R |-> e.R, ret |-> FALSE]
         ELSE The({[R |-> _save_schemas(
                            [R1 EXCEPT !.migrations =
                               Append(@, SchemaMigration(get_current_schema(R1),
                                                         e.target_version,
                                                         "modify_field", field_name))]),
                    ret |-> TRUE]
                   : R1 \in {[e.R EXCEPT
                               !.field_objs = Append(@, [new_field EXCEPT
                                   !.added_in_version =
                                       e.R.field_objs[e.R.schemas[e.target_version].fields[field_name]]
                                          .added_in_version,
                                   !.name = field_name]),
                               !.schemas[e.target_version].fields[field_name] =
                                   Len(e.R.field_objs) + 1]}})
         : e \in {EnsureVersion(R, target_version, "patch")}})

\* DynamicSchemaManager() on an empty storage directory: _load_schemas finds no
\* file, _initialize_base_schema creates 1.0.0 from core_fields.copy() and saves
\* _load_schemas on a storage directory whose schemas.json holds data (a map
\* from version to its dump) and whose migrations.json holds migration_data:
\* every SchemaVersion(**schema_data) builds its own SchemaField instances.
_load_schemas(R, data, migration_data) ==
    The({[R EXCEPT
            !.field_objs =
                @ \o [i \in 1..Len(slots) |-> data[slots[i][1]].fields[slots[i][2]]],
            !.schemas =
                [v \in DOMAIN data |->
                    [version |-> data[v].version,
                     is_active |-> data[v].is_active,
                     fields |-> [n \in DOMAIN data[v].fields |->
                                    Len(R.field_objs)
                                    + (CHOOSE i \in 1..Len(slots) : slots[i] = <<v, n>>)]]],
            !.migrations = migration_data,
            !.schemas_json = data,
            !.migrations_json = migration_data]
         : slots \in {Enumerate(UNION {{<<v, n>> : n \in DOMAIN data[v].fields}
                                        : v \in DOMAIN data})}})

_initialize_base_schema(R) ==
    IF BaseVersion \in DOMAIN R.schemas THEN R
    ELSE _save_schemas([R EXCEPT !.schemas =
                           (BaseVersion :> SchemaVersion(BaseVersion, R.core_fields)) @@ @])

InitialCoreFields ==
    [n \in SeqToSet(CoreFieldNames) |->
        CHOOSE i \in 1..Len(CoreFieldNames) : CoreFieldNames[i] = n]

InitialRegistry ==
    _save_schemas(
        [schemas |-> (BaseVersion :> SchemaVersion(BaseVersion, InitialCoreFields)),
         field_objs |-> CoreFieldObjects,
         migrations |-> <<>>,
         core_fields |-> InitialCoreFields,
         schemas_json |-> <<>>,
         migrations_json |-> <<>>])

-----------------------------------------------------------------------------
(* Change-approval gate.  G is the approval manager's state:               *)
(* [requests, pending_requests, approval_history, clock].                  *)

reviewers == {"admin", "schema_reviewer", "lead_developer"}
admins == {"admin", "system_admin"}

AutoApprovedComment == "auto-approved (low-risk change)"
ExecutionFailedComment == "execution failed"
ExecutionFailedSuffix == " (execution failed)"

\* assess_change_risk with the branches of remove_field and modify_field swapped
assess_change_risk_swapped(R, change_type, field_name, change_details) ==
    IF field_name \in DOMAIN R.core_fields THEN "critical"
    ELSE IF change_type = "add_field"
    THEN (IF Get(change_details, "required", FALSE) THEN "medium" ELSE "low")
    ELSE IF change_type = "modify_field" THEN "high"
    ELSE IF change_type = "remove_field"
    THEN (IF "field_type" \in DOMAIN change_details \/ "required" \in DOMAIN change_details
          THEN "medium" ELSE "low")
    ELSE IF change_type = "rename_field" THEN "high"
    ELSE "medium"

assess_change_risk(R, change_type, field_name, change_details) ==
    IF field_name \in DOMAIN R.core_fields THEN "critical"
    ELSE IF change_type = "add_field"
    THEN (IF Get(change_details, "required", FALSE) THEN "medium" ELSE "low")
    ELSE IF change_type = "remove_field" THEN "high"
    ELSE IF change_type = "modify_field"
    THEN (IF "field_type" \in DOMAIN change_details \/ "required" \in DOMAIN change_details
          THEN "medium" ELSE "low")
    ELSE IF change_type = "rename_field" THEN "high"
    ELSE "medium"

\* determine_approval_level with medium risk mapped to automatic approval
determine_approval_level_medium_automatic(risk_level) ==
    CASE risk_level = "low" -> "automatic"
      [] risk_level = "medium" -> "automatic"
      [] risk_level = "high" -> "admin"
      [] risk_level = "critical" -> "committee"
      [] OTHER -> "reviewer"

determine_approval_level(risk_level) ==
    CASE risk_level = "low" -> "automatic"
      [] risk_level = "medium" -> "reviewer"
      [] risk_level = "high" -> "admin"
      [] risk_level = "critical" -> "committee"
      [] OTHER -> "reviewer"

_analyze_change_impact(change_type, field_name, change_details) ==
    LET impact == [breaking_change |-> FALSE,
                   data_migration_required |-> FALSE,
                   estimated_downtime |-> "0 minutes",
                   rollback_complexity |-> "simple"]
    IN IF change_type = "remove_field"
       THEN [impact EXCEPT !.breaking_change = TRUE,
                           !.data_migration_required = TRUE,
                           !.rollback_complexity = "complex"]
       ELSE IF change_type = "modify_field"
       THEN (IF "field_type" \in DOMAIN change_details
             THEN [impact EXCEPT !.data_migration_required = TRUE,
                                 !.rollback_complexity = "moderate"]
             ELSE impact)
       ELSE IF change_type = "add_field" /\ Get(change_details, "required", FALSE)
       THEN [impact EXCEPT !.data_migration_required = TRUE,
                           !.estimated_downtime = "5-10 minutes"]
       ELSE impact

\* _check_review_permission granting every reviewer the reviewer level
_check_review_permission_any_reviewer(reviewer, required_level) ==
    CASE required_level = "automatic" -> TRUE
      [] required_level = "reviewer" -> TRUE
      [] required_level = "admin" -> reviewer \in admins
      [] required_level = "committee" -> reviewer \in admins
      [] OTHER -> FALSE

\* _check_review_permission with committee reviews open to the reviewer set
_check_review_permission_committee_reviewers(reviewer, required_level) ==
    CASE required_level = "automatic" -> TRUE
      [] required_level = "reviewer" -> reviewer \in reviewers
      [] required_level = "admin" -> reviewer \in admins
      [] required_level = "committee" -> reviewer \in reviewers
      [] OTHER -> FALSE

_check_review_permission(reviewer, required_level) ==
    CASE required_level = "automatic" -> TRUE
      [] required_level = "reviewer" -> reviewer \in reviewers
      [] required_level = "admin" -> reviewer \in admins
      [] required_level = "committee" -> reviewer \in admins
      [] OTHER -> FALSE

\* Exceptions raised while the SchemaField is built are caught by the handler
\* of _execute_change, which returns False before the engine is called.
_execute_change(R, request) ==
    IF request.change_type = "add_field"
    THEN IF "field_type" \notin DOMAIN request.change_details
            \/ request.change_details["field_type"] \notin FieldTypes
         THEN [R |-> R, ret |-> FALSE]
         ELSE add_field(R,
                SchemaField(request.field_name, request.change_details["field_type"],
                    Get(request.change_details, "description", ""),
                    [FieldValidation(Get(request.change_details, "validation", EmptyDict))
                        EXCEPT !.required = Get(request.change_details, "required", FALSE)],
                    FALSE, <<"0", ".", "0", ".", "0">>),
                None)
    ELSE IF request.change_type = "remove_field"
    THEN remove_field(R, request.field_name, None)
    ELSE IF request.change_type = "modify_field"
    THEN The({IF request.field_name \notin DOMAIN current_schema.fields
              THEN [R |-> R, ret |-> FALSE]
              ELSE The({IF Get(request.change_details, "field_type",
                               existing_field.field_type) \notin FieldTypes
                        THEN [R |-> R, ret |-> FALSE]
                        ELSE modify_field(R, request.field_name,
                                 SchemaField(request.field_name,
                                     Get(request.change_details, "field_type",
                                         existing_field.field_type),
                                     Get(request.change_details, "description",
                                         existing_field.description),
                                     FieldValidation(Get(request.change_details,
                                                         "validation", EmptyDict)),
                                     existing_field.is_core,
                                     existing_field.added_in_version),
                                 None)
                        : existing_field \in
                             {R.field_objs[current_schema.fields[request.field_name]]}})
              : current_schema \in {R.schemas[get_current_schema(R)]}})
    ELSE [R |-> R, ret |-> FALSE]

\* _auto_approve_request without the status update of the failure branch
_auto_approve_request_stays_approved(G, R, request) ==
    The({The({IF x.ret
              THEN [G |-> [G1 EXCEPT !.approval_history = Append(@, request)],
                    R |-> x.R, ret |-> request, success |-> Some(TRUE)]
              ELSE [G |-> G1, R |-> x.R, ret |-> request, success |-> Some(FALSE)]
              : x \in {_execute_change(R, G1.requests[request])}})
         : G1 \in {[G EXCEPT !.requests[request].status = "approved",
                             !.requests[request].reviewed_by = Some("system"),
                             !.requests[request].reviewed_at = Some(G.clock + 1),
                             !.requests[request].review_comments = <<AutoApprovedComment>>,
                             !.clock = @ + 1]}})

\* request is the id of a freshly constructed request object held in G.requests
_auto_approve_request(G, R, request) ==
    The({The({IF x.ret
              THEN [G |-> [G1 EXCEPT !.approval_history = Append(@, request)],
                    R |-> x.R, ret |-> request, success |-> Some(TRUE)]
              ELSE [G |-> [G1 EXCEPT !.requests[request].status = "rejected",
                                     !.requests[request].review_comments =
                                         <<ExecutionFailedComment>>],
                    R |-> x.R, ret |-> request, success |-> Some(FALSE)]
              : x \in {_execute_change(R, G1.requests[request])}})
         : G1 \in {[G EXCEPT !.requests[request].status = "approved",
                             !.requests[request].reviewed_by = Some("system"),
                             !.requests[request].reviewed_at = Some(G.clock + 1),
                             !.requests[request].review_comments = <<AutoApprovedComment>>,
                             !.clock = @ + 1]}})

create_change_request(G, R, change_type, field_name, change_details, proposed_by, justification) ==
    The({The({The({IF approval_level = "automatic"
              THEN _auto_approve_request([G EXCEPT !.requests = Append(@, request)],
                                         R, request.request_id)
              ELSE [G |-> [G EXCEPT !.requests = Append(@, request),
                                    !.pending_requests = Append(@, request.request_id)],
                    R |-> R, ret |-> request.request_id, success |-> None]
              : request \in
                  {[request_id |-> Len(G.requests) + 1,
                    change_type |-> change_type,
                    field_name |-> field_name,
                    change_details |-> change_details,
                    risk_level |-> risk_level,
                    required_approval_level |-> approval_level,
                    proposed_by |-> proposed_by,
                    justification |-> justification,
                    status |-> "pending",
                    reviewed_by |-> None,
                    reviewed_at |-> None,
                    review_comments |-> <<"">>,
                    impact_analysis |->
                        _analyze_change_impact(change_type, field_name, change_details)]}})
              : approval_level \in {determine_approval_level(risk_level)}})
         : risk_level \in {assess_change_risk(R, change_type, field_name, change_details)}})

\* review_request, lines 235-245: the engine is called on "approve" only
ReviewExecuteOnAnyAction(R, request, action) ==
    _execute_change(R, request)

ReviewExecute(R, request, action) ==
    IF action = "approve"
    THEN _execute_change(R, request)
    ELSE [R |-> R, ret |-> TRUE]

\* review_request, lines 247-249: append to the history, delete from pending
MoveToHistoryAtFront(G, request_id) ==
    [G EXCEPT !.approval_history = <<request_id>> \o @,
              !.pending_requests = Without(@, request_id)]

MoveToHistory(G, request_id) ==
    [G EXCEPT !.approval_history = Append(@, request_id),
              !.pending_requests = Without(@, request_id)]

review_request(G, R, request_id, reviewer, action, comments) ==
    IF request_id \notin SeqToSet(G.pending_requests)
    THEN [G |-> G, R |-> R, ret |-> FALSE, success |-> None]
    ELSE IF ~_check_review_permission(reviewer, G.requests[request_id].required_approval_level)
    THEN [G |-> G, R |-> R, ret |-> FALSE, success |-> None]
    ELSE
    The({The({[G |-> MoveToHistory(
                       IF action = "approve" /\ ~x.ret
                       THEN [G2 EXCEPT !.requests[request_id].status = "rejected",
                                       !.requests[request_id].review_comments =
                                           Append(@, ExecutionFailedSuffix)]
                       ELSE G2,
                       request_id),
               R |-> x.R,
               ret |-> TRUE,
               success |-> IF action = "approve" THEN Some(x.ret) ELSE None]
              : x \in {ReviewExecute(R, G2.requests[request_id], action)}})
         : G2 \in {[G EXCEPT !.requests[request_id].reviewed_by = Some(reviewer),
                             !.requests[request_id].reviewed_at = Some(G.clock + 1),
                             !.requests[request_id].review_comments = <<comments>>,
                             !.requests[request_id].status =
                                 IF action = "approve" THEN "approved"
                                 ELSE IF action = "reject" THEN "rejected"
                                 ELSE @,
                             !.clock = @ + 1]}})

\* get_pending_requests without the permission filter
get_pending_requests_unfiltered(G, reviewer) ==
    [i \in 1..Len(G.pending_requests) |->
        [request_id |-> G.requests[G.pending_requests[i]].request_id,
         change_type |-> G.requests[G.pending_requests[i]].change_type,
         field_name |-> G.requests[G.pending_requests[i]].field_name,
         risk_level |-> G.requests[G.pending_requests[i]].risk_level,
         required_approval_level |-> G.requests[G.pending_requests[i]].required_approval_level,
         proposed_by |-> G.requests[G.pending_requests[i]].proposed_by,
         justification |-> G.requests[G.pending_requests[i]].justification,
         impact_analysis |-> G.requests[G.pending_requests[i]].impact_analysis]]

\* `if reviewer and not ...`: None and the empty string both skip the filter
get_pending_requests(G, reviewer) ==
    LET visible(id) == reviewer = None
                       \/ The(reviewer) = ""
                       \/ _check_review_permission(The(reviewer),
                                                   G.requests[id].required_approval_level)
        F[i \in 0..Len(G.pending_requests)] ==
            IF i = 0 THEN <<>>
            ELSE IF visible(G.pending_requests[i])
                 THEN Append(F[i - 1],
                        LET r == G.requests[G.pending_requests[i]]
                        IN [request_id |-> r.request_id,
                            change_type |-> r.change_type,
                            field_name |-> r.field_name,
                            risk_level |-> r.risk_level,
                            required_approval_level |-> r.required_approval_level,
                            proposed_by |-> r.proposed_by,
                            justification |-> r.justification,
                            impact_analysis |-> r.impact_analysis])
                 ELSE F[i - 1]
    IN F[Len(G.pending_requests)]

\* self.approval_history[-limit:] and its projection
get_approval_history(G, limit) ==
    LET n == Len(G.approval_history)
        first == IF limit = 0 THEN 1 ELSE IF limit >= n THEN 1 ELSE n - limit + 1
    IN [i \in 1..(n - first + 1) |->
          LET r == G.requests[G.approval_history[first + i - 1]]
          IN [request_id |-> r.request_id,
              change_type |-> r.change_type,
              field_name |-> r.field_name,
              status |-> r.status,
              risk_level |-> r.risk_level,
              proposed_by |-> r.proposed_by,
              reviewed_by |-> r.reviewed_by,
              reviewed_at |-> r.reviewed_at,
              review_comments |-> r.review_comments]]

-----------------------------------------------------------------------------
(* Inputs of the calls *)

\* (change_type, field_name, change_details) triples handed to create_change_request
Proposals ==
    {<<"add_field", "priority", [field_type |-> "string", required |-> FALSE]>>,
     <<"add_field", "priority", [field_type |-> "list", required |-> TRUE]>>,
     <<"add_field", "priority", [required |-> TRUE]>>,
     <<"remove_field", "priority", [deprecated |-> TRUE]>>,
     <<"modify_field", "priority", [description |-> "updated"]>>,
     <<"remove_field", "content_id", [deprecated |-> TRUE]>>}

\* every change type with details that name field_type, required, both or neither
ImpactProposals ==
    {<<ct, "priority", d>> :
        ct \in {"add_field", "remove_field", "modify_field", "rename_field"},
        d \in {EmptyDict,
               [required |-> TRUE],
               [required |-> FALSE],
               [field_type |-> "string"],
               [field_type |-> "list", required |-> TRUE],
               [description |-> "updated"]}}

FieldNames == {"content_id", "priority"}

\* the reviewers that call review_request
Users == {"system_admin", "schema_reviewer", "unauthorized_user"}

ReviewActions == {"approve", "reject", "defer"}

ReviewComments == {"ok"}

RequestIds == 1..MaxRequests

TargetVersions == {None, Some(BaseVersion), Some(<<"1", ".", "1", ".", "0">>)}

\* the SchemaField instances callers hand to add_field and modify_field
NewFields(name) ==
    {SchemaField(name, "string", "", FieldValidation([required |-> req]), FALSE,
                 <<"0", ".", "0", ".", "0">>) : req \in BOOLEAN}

\* DynamicSchemaManager(path) on a storage directory holding data
DynamicSchemaManager(data, migration_data) ==
    _initialize_base_schema(
        _load_schemas([schemas |-> EmptyDict,
                       field_objs |-> CoreFieldObjects,
                       migrations |-> <<>>,
                       core_fields |-> InitialCoreFields,
                       schemas_json |-> <<>>,
                       migrations_json |-> <<>>],
                      data, migration_data))

\* the versions a stored schemas.json may hold
StoredVersions ==
    {BaseVersion, <<"1", ".", "9", ".", "0">>, <<"1", ".", "1", "0", ".", "0">>,
     <<"2", ".", "0", ".", "0">>}

\* the stored files: any of the versions, each active or not, with the core
\* fields as dumped
StoredSchemas ==
    {[v \in DOMAIN act |->
         [version |-> v, is_active |-> act[v],
          fields |-> [n \in SeqToSet(CoreFieldNames) |-> CoreFieldObjects[InitialCoreFields[n]]]]]
     : act \in UNION {[S -> BOOLEAN] : S \in SUBSET StoredVersions}}

-----------------------------------------------------------------------------
(* State machine *)

Registry ==
    [schemas |-> schemas, field_objs |-> field_objs, migrations |-> migrations,
     core_fields |-> core_fields, schemas_json |-> schemas_json,
     migrations_json |-> migrations_json]

Gate ==
    [requests |-> requests, pending_requests |-> pending_requests,
     approval_history |-> approval_history, clock |-> clock]

SetRegistry(R) ==
    /\ schemas' = R.schemas
    /\ field_objs' = R.field_objs
    /\ migrations' = R.migrations
    /\ core_fields' = R.core_fields
    /\ schemas_json' = R.schemas_json
    /\ migrations_json' = R.migrations_json

SetGate(G) ==
    /\ requests' = G.requests
    /\ pending_requests' = G.pending_requests
    /\ approval_history' = G.approval_history
    /\ clock' = G.clock

\* last names the call that produced the state: the operation, the request it
\* concerned, the branch it took, the review action once the permission check
\* was passed, the boolean it returned, the result of _execute_change, and
\* whether the call left the registry and the gate different from before.
\* For a direct engine call target_version is the version the call resolved
\* its target to; for get_current_schema version is the version returned.
\* For a read-only call args are its arguments and result is what it returned.
\* the threads that call add_field concurrently, and the field each adds
Threads == {1, 2}

ThreadField(t) ==
    SchemaField(IF t = 1 THEN "priority" ELSE "category", "string", "",
                FieldValidation(EmptyDict), FALSE, <<"0", ".", "0", ".", "0">>)

\* no thread is inside a call
NoThreads == [t \in Threads |-> [pc |-> "idle", target_version |-> None, ret |-> None]]

NoCall ==
    [op |-> "init", request_id |-> None, branch |-> "", action |-> "",
     field_name |-> "", ret |-> None, success |-> None,
     registry_changed |-> FALSE, gate_changed |-> FALSE, target_version |-> None,
     version |-> None, args |-> None, result |-> None]

Init ==
    /\ schemas = InitialRegistry.schemas
    /\ field_objs = InitialRegistry.field_objs
    /\ migrations = InitialRegistry.migrations
    /\ core_fields = InitialRegistry.core_fields
    /\ schemas_json = InitialRegistry.schemas_json
    /\ migrations_json = InitialRegistry.migrations_json
    /\ requests = <<>>
    /\ pending_requests = <<>>
    /\ approval_history = <<>>
    /\ clock = 0
    /\ last = NoCall
    /\ threads = NoThreads

\* Each action binds the call's result once (\E x \in {call}) and assigns the
\* state from it.
CreateChangeRequest(change_type, field_name, change_details) ==
    /\ Len(requests) < MaxRequests
    /\ UNCHANGED threads
    /\ \E x \in {create_change_request(Gate, Registry, change_type, field_name,
                                      change_details, "system", "")} :
          /\ SetGate(x.G)
          /\ SetRegistry(x.R)
          /\ last' = [NoCall EXCEPT !.op = "create_change_request",
                                    !.request_id = Some(x.ret),
                                    !.branch = IF x.success = None THEN "pending" ELSE "automatic",
                                    !.field_name = field_name,
                                    !.success = x.success,
                                    !.registry_changed = (x.R # Registry),
                                    !.gate_changed = (x.G # Gate)]

ReviewBranch(G, request_id, reviewer) ==
    IF request_id \notin SeqToSet(G.pending_requests) THEN "not_pending"
    ELSE IF ~_check_review_permission(reviewer, G.requests[request_id].required_approval_level)
    THEN "no_permission"
    ELSE "reviewed"

ReviewRequest(request_id, reviewer, action, comments) ==
    \E x \in {review_request(Gate, Registry, request_id, reviewer, action, comments)} :
       /\ UNCHANGED threads
       /\ SetGate(x.G)
       /\ SetRegistry(x.R)
       /\ last' = [NoCall EXCEPT !.op = "review_request",
                                 !.request_id = Some(request_id),
                                 !.branch = ReviewBranch(Gate, request_id, reviewer),
                                 !.action = IF x.ret THEN action ELSE "",
                                 !.ret = Some(x.ret),
                                 !.success = x.success,
                                 !.registry_changed = (x.R # Registry),
                                 !.gate_changed = (x.G # Gate)]

EngineGuard ==
    /\ Cardinality(DOMAIN schemas) < MaxVersions
    /\ Len(migrations) < MaxMigrations

AddField(field, target_version) ==
    /\ EngineGuard
    /\ \E x \in {add_field(Registry, field, target_version)} :
          /\ SetRegistry(x.R)
          /\ last' = [NoCall EXCEPT !.op = "add_field",
                                    !.field_name = field.name,
                                    !.ret = Some(x.ret),
                                    !.registry_changed = (x.R # Registry),
                                    !.target_version =
                                        Some(EnsureVersion(Registry, target_version, "minor").target_version)]
    /\ UNCHANGED <<gateVars, threads>>

RemoveField(field_name, target_version) ==
    /\ EngineGuard
    /\ \E x \in {remove_field(Registry, field_name, target_version)} :
          /\ SetRegistry(x.R)
          /\ last' = [NoCall EXCEPT !.op = "remove_field",
                                    !.field_name = field_name,
                                    !.ret = Some(x.ret),
                                    !.registry_changed = (x.R # Registry),
                                    !.target_version =
                                        IF field_name \in DOMAIN core_fields THEN None
                                        ELSE Some(EnsureVersion(Registry, target_version, "minor").target_version)]
    /\ UNCHANGED <<gateVars, threads>>

ModifyField(field_name, new_field, target_version) ==
    /\ EngineGuard
    /\ \E x \in {modify_field(Registry, field_name, new_field, target_version)} :
          /\ SetRegistry(x.R)
          /\ last' = [NoCall EXCEPT !.op = "modify_field",
                                    !.field_name = field_name,
                                    !.ret = Some(x.ret),
                                    !.registry_changed = (x.R # Registry),
                                    !.target_version =
                                        Some(EnsureVersion(Registry, target_version, "patch").target_version)]
    /\ UNCHANGED <<gateVars, threads>>

Next ==
    \/ \E p \in Proposals : CreateChangeRequest(p[1], p[2], p[3])
    \/ \E id \in RequestIds, r \in Users, a \in ReviewActions, c \in ReviewComments :
          ReviewRequest(id, r, a, c)

\* the calls of the approval gate, the registry's only caller in the workflow
Spec == Init /\ [][Next]_vars

\* create_change_request alone, over every change type
NextCreate ==
    \E p \in ImpactProposals : CreateChangeRequest(p[1], p[2], p[3])

SpecCreate == Init /\ [][NextCreate]_vars

\* direct calls of the evolution engine: optional fields are added, and
\* modify_field makes a field required
NextEngine ==
    \/ \E fn \in FieldNames, tv \in TargetVersions :
          \E f \in NewFields(fn) : ~f.validation.required /\ AddField(f, tv)
    \/ \E fn \in FieldNames, tv \in TargetVersions : RemoveField(fn, tv)
    \/ \E fn \in FieldNames, tv \in TargetVersions :
          \E f \in NewFields(fn) : f.validation.required /\ ModifyField(fn, f, tv)

SpecEngine == Init /\ [][NextEngine]_vars

\* a manager constructed on a storage directory written earlier
InitStored ==
    /\ \E data \in StoredSchemas : \E R \in {DynamicSchemaManager(data, <<>>)} :
          /\ schemas = R.schemas
          /\ field_objs = R.field_objs
          /\ migrations = R.migrations
          /\ core_fields = R.core_fields
          /\ schemas_json = R.schemas_json
          /\ migrations_json = R.migrations_json
    /\ requests = <<>>
    /\ pending_requests = <<>>
    /\ approval_history = <<>>
    /\ clock = 0
    /\ last = NoCall
    /\ threads = NoThreads

GetCurrentSchema ==
    /\ last' = [NoCall EXCEPT !.op = "get_current_schema",
                              !.version = Some(get_current_schema(Registry))]
    /\ UNCHANGED <<regVars, gateVars, threads>>

NextStored == GetCurrentSchema

SpecStored == InitStored /\ [][NextStored]_vars

\* the records handed to validate_data and analyze_schema_usage
CompliantRecord ==
    [content_id |-> PyStr(<<"x">>), title |-> PyStr(<<"t">>),
     content_type |-> PyStr(<<"x">>), created_at |-> PyDateTime(0),
     updated_at |-> PyDateTime(0)]

\* the record of the workflow test: timestamps as ISO strings
TimestampStringRecord ==
    [CompliantRecord EXCEPT !.created_at = PyStr(<<"t">>), !.updated_at = PyStr(<<"t">>)]

WithoutKey(data, key) == [k \in DOMAIN data \ {key} |-> data[k]]

TestRecords ==
    {CompliantRecord,
     TimestampStringRecord,
     WithoutKey(TimestampStringRecord, "content_id"),
     ("priority" :> PyInt(5)) @@ CompliantRecord,
     ("priority" :> PyStr(<<"a">>)) @@ WithoutKey(CompliantRecord, "title"),
     ("test_priority" :> PyStr(<<"a">>)) @@ CompliantRecord}

\* the records the validate_data calls of the transition system are made on
CallRecords ==
    {CompliantRecord, ("priority" :> PyInt(5)) @@ CompliantRecord}

SchemaVersionArgs == {None, Some(BaseVersion), Some(<<"9", ".", "9", ".", "9">>)}

SampleLists ==
    {<<>>, <<CompliantRecord>>,
     <<("test_priority" :> PyStr(<<"a">>)) @@ CompliantRecord,
       WithoutKey(CompliantRecord, "content_id")>>}

ReviewerArgs == {None, Some("schema_reviewer"), Some("system_admin")}

Limits == {1, 50}

\* a call that reads: the state is left as it is
ReadCall(op, args, result) ==
    /\ last' = [NoCall EXCEPT !.op = op, !.args = Some(args), !.result = Some(result)]
    /\ UNCHANGED <<regVars, gateVars, threads>>

ValidateData(data, schema_version) ==
    \E x \in {validate_data(Registry, data, schema_version)} :
       ReadCall("validate_data", <<data, schema_version>>, x)

AnalyzeSchemaUsage(data_samples) ==
    \E x \in {analyze_schema_usage(Registry, data_samples)} :
       ReadCall("analyze_schema_usage", <<data_samples>>, x)

\* get_schema_suggestions: the analysis of the samples, then the suggestions
SuggestSchemaImprovements(data_samples) ==
    \E x \in {suggest_schema_improvements(analyze_schema_usage(Registry, data_samples))} :
       ReadCall("suggest_schema_improvements", <<data_samples>>, x)

GetSchemaEvolutionHistory ==
    \E x \in {get_schema_evolution_history(Registry)} :
       ReadCall("get_schema_evolution_history", <<>>, x)

\* get_approval_history removing what it returned from the history
GetApprovalHistoryDraining(limit) ==
    /\ approval_history # <<>>
    /\ last' = [NoCall EXCEPT !.op = "get_approval_history", !.args = Some(<<limit>>),
                              !.result = Some(get_approval_history(Gate, limit))]
    /\ approval_history' = <<>>
    /\ UNCHANGED <<regVars, requests, pending_requests, clock, threads>>

GetPendingRequests(reviewer) ==
    \E x \in {get_pending_requests(Gate, reviewer)} :
       ReadCall("get_pending_requests", <<reviewer>>, x)

GetApprovalHistory(limit) ==
    \E x \in {get_approval_history(Gate, limit)} :
       ReadCall("get_approval_history", <<limit>>, x)

\* the mutating calls that build the states the reads are applied to, and
\* the reads
NextRead ==
    \/ \E f \in NewFields("priority") : ~f.validation.required /\ AddField(f, None)
    \/ CreateChangeRequest("remove_field", "priority", [deprecated |-> TRUE])
    \/ \E id \in RequestIds, a \in {"approve", "reject"} :
          ReviewRequest(id, "system_admin", a, "ok")
    \/ \E data \in CallRecords, v \in SchemaVersionArgs : ValidateData(data, v)
    \/ \E samples \in SampleLists : AnalyzeSchemaUsage(samples)
    \/ \E samples \in SampleLists : SuggestSchemaImprovements(samples)
    \/ GetSchemaEvolutionHistory
    \/ \E r \in ReviewerArgs : GetPendingRequests(r)
    \/ \E limit \in Limits : GetApprovalHistory(limit)

SpecRead == Init /\ [][NextRead]_vars

\* add_field run by thread t one statement group at a time, with no lock
\* around it.  lines 252-256: derive the target version from the current one
Begin(t) ==
    /\ threads[t].pc = "idle"
    /\ threads' = [threads EXCEPT ![t].pc = "test_version",
                                  ![t].target_version =
                                      Some(_increment_version(get_current_schema(Registry),
                                                              "minor"))]
    /\ UNCHANGED <<regVars, gateVars, last>>

\* line 258: if target_version not in self.schemas
TestVersion(t) ==
    /\ threads[t].pc = "test_version"
    /\ threads' = [threads EXCEPT ![t].pc =
                      IF The(threads[t].target_version) \in DOMAIN schemas
                      THEN "test_field" ELSE "create_version"]
    /\ UNCHANGED <<regVars, gateVars, last>>

\* lines 259-266: clone the current version into self.schemas[target_version]
CreateVersion(t) ==
    /\ threads[t].pc = "create_version"
    /\ schemas' = (The(threads[t].target_version) :>
                      SchemaVersion(The(threads[t].target_version),
                                    schemas[get_current_schema(Registry)].fields))
                  @@ schemas
    /\ threads' = [threads EXCEPT ![t].pc = "test_field"]
    /\ UNCHANGED <<field_objs, migrations, core_fields, schemas_json, migrations_json,
                   gateVars, last>>

\* lines 268-271: the field exists already, return False
TestField(t) ==
    /\ threads[t].pc = "test_field"
    /\ threads' = [threads EXCEPT
                      ![t].pc = IF ThreadField(t).name
                                      \in DOMAIN schemas[The(threads[t].target_version)].fields
                                THEN "done" ELSE "insert",
                      ![t].ret = IF ThreadField(t).name
                                      \in DOMAIN schemas[The(threads[t].target_version)].fields
                                 THEN Some(FALSE) ELSE None]
    /\ UNCHANGED <<regVars, gateVars, last>>

\* lines 273-275: stamp added_in_version and insert the field
Insert(t) ==
    /\ threads[t].pc = "insert"
    /\ field_objs' = Append(field_objs,
                            [ThreadField(t) EXCEPT
                                !.added_in_version = The(threads[t].target_version)])
    /\ schemas' = [schemas EXCEPT ![The(threads[t].target_version)].fields =
                      (ThreadField(t).name :> (Len(field_objs) + 1)) @@ @]
    /\ threads' = [threads EXCEPT ![t].pc = "migrate"]
    /\ UNCHANGED <<migrations, core_fields, schemas_json, migrations_json, gateVars, last>>

\* lines 277-286: append the migration record
Migrate(t) ==
    /\ threads[t].pc = "migrate"
    /\ migrations' =
          IF The(threads[t].target_version) # BaseVersion
          THEN Append(migrations,
                      SchemaMigration(get_current_schema(Registry),
                                      The(threads[t].target_version),
                                      "add_field", ThreadField(t).name))
          ELSE migrations
    /\ threads' = [threads EXCEPT ![t].pc = "save_schemas"]
    /\ UNCHANGED <<schemas, field_objs, core_fields, schemas_json, migrations_json,
                   gateVars, last>>

\* _save_schemas lines 196-204: write schemas.json
SaveSchemas(t) ==
    /\ threads[t].pc = "save_schemas"
    /\ schemas_json' = [v \in DOMAIN schemas |-> model_dump(Registry, v)]
    /\ threads' = [threads EXCEPT ![t].pc = "save_migrations"]
    /\ UNCHANGED <<schemas, field_objs, migrations, core_fields, migrations_json,
                   gateVars, last>>

\* _save_schemas lines 207-216: write migrations.json; line 290: return True
SaveMigrations(t) ==
    /\ threads[t].pc = "save_migrations"
    /\ migrations_json' = migrations
    /\ threads' = [threads EXCEPT ![t].pc = "done", ![t].ret = Some(TRUE)]
    /\ last' = [NoCall EXCEPT !.op = "add_field",
                              !.field_name = ThreadField(t).name,
                              !.ret = Some(TRUE),
                              !.target_version = threads[t].target_version]
    /\ UNCHANGED <<schemas, field_objs, migrations, core_fields, schemas_json, gateVars>>

\* a second manager constructed on the storage directory: what it loads
Reload ==
    /\ \E L \in {DynamicSchemaManager(schemas_json, migrations_json)} :
          last' = [NoCall EXCEPT !.op = "reload",
                                 !.result = Some([versions |-> DOMAIN L.schemas,
                                                  fields |-> DOMAIN L.schemas[get_current_schema(L)].fields,
                                                  migrations |-> L.migrations])]
    /\ UNCHANGED <<regVars, gateVars, threads>>

NextConcurrent ==
    \/ \E t \in Threads :
          \/ Begin(t)
          \/ TestVersion(t)
          \/ CreateVersion(t)
          \/ TestField(t)
          \/ Insert(t)
          \/ Migrate(t)
          \/ SaveSchemas(t)
          \/ SaveMigrations(t)
    \/ Reload

SpecConcurrent == Init /\ [][NextConcurrent]_vars

-----------------------------------------------------------------------------
(* Properties of the approval gate *)

PendingIds == SeqToSet(pending_requests)

HistoryIds == SeqToSet(approval_history)

\* every reviewer name of the two permission sets, and one outside both
AllUsers == reviewers \cup admins \cup {"unauthorized_user"}

AllComments == {"", "ok"}

\* the reviewer set authorized for a required approval level
SpecAuthorized(reviewer, level) ==
    \/ level = "reviewer" /\ reviewer \in reviewers
    \/ level \in {"admin", "committee"} /\ reviewer \in admins

\* the request a successful call of last concerned
LastRequest == requests[The(last.request_id)]

CurrentFields == DOMAIN schemas[get_current_schema(Registry)].fields

\* C1: every request id returned by create_change_request is held in exactly
\* one of the pending collection and the approval history, auto-executed
\* requests included.
C1_ExactlyOnePlace ==
    \A id \in DOMAIN requests : (id \in PendingIds) # (id \in HistoryIds)

\* add_field details without field_type: building the SchemaField raises
UntypedDetails == [description |-> "updated"]

\* C2: a request whose computed risk is low is never in the pending
\* collection, and its status is approved when the mutation it triggered
\* returned true and rejected when it returned false or raised.
C2_LowRiskAutoExecuted ==
    /\ \A id \in DOMAIN requests :
          requests[id].risk_level = "low" =>
             /\ id \notin PendingIds
             /\ requests[id].status \in {"approved", "rejected"}
    /\ (last.op = "create_change_request" /\ LastRequest.risk_level = "low") =>
          /\ last.success # None
          /\ LastRequest.status = IF The(last.success) THEN "approved" ELSE "rejected"
    /\ \A x \in {create_change_request(Gate, Registry, "add_field", "priority",
                                        UntypedDetails, "system", "")} :
          /\ x.G.requests[x.ret].risk_level = "low"
          /\ x.ret \notin SeqToSet(x.G.pending_requests)
          /\ x.success = Some(FALSE)
          /\ x.G.requests[x.ret].status = "rejected"

C2_Witness ==
    /\ last.op = "create_change_request"
    /\ LastRequest.risk_level = "low"
    /\ last.success = Some(FALSE)
    /\ LastRequest.status = "rejected"

\* C3: every request in the history has status approved or rejected with
\* reviewed_by and reviewed_at set, and every pending request has status
\* pending with no reviewer, whatever action review_request was called with.
C3_StatusMatchesCollection ==
    /\ \A id \in HistoryIds :
          /\ requests[id].status \in {"approved", "rejected"}
          /\ requests[id].reviewed_by # None
          /\ requests[id].reviewed_at # None
    /\ \A id \in PendingIds :
          /\ requests[id].status = "pending"
          /\ requests[id].reviewed_by = None

\* C4: review_request returns false and changes neither the gate nor the
\* registry when the id is not pending or the reviewer is not authorized for
\* the request's level; while a request is pending an authorized review
\* succeeds and takes it out of the pending collection, so that no request is
\* reviewed successfully twice.
C4_FailedReviewChangesNothing ==
    /\ \A id \in 1..(MaxRequests + 1), u \in AllUsers, a \in ReviewActions :
          \A x \in {review_request(Gate, Registry, id, u, a, "ok")} :
             IF id \in PendingIds
                /\ SpecAuthorized(u, requests[id].required_approval_level)
             THEN x.ret /\ id \notin SeqToSet(x.G.pending_requests)
             ELSE ~x.ret /\ x.G = Gate /\ x.R = Registry
    /\ \A i, j \in 1..Len(approval_history) :
          i # j => approval_history[i] # approval_history[j]
    /\ (last.op = "review_request" /\ last.ret = Some(FALSE)) =>
          ~last.gate_changed /\ ~last.registry_changed

C4_Witness ==
    /\ last.op = "review_request"
    /\ last.branch = "no_permission"
    /\ last.ret = Some(FALSE)
    /\ The(last.request_id) \in PendingIds
    /\ LastRequest.status = "pending"

\* C5: when an authorized reviewer approves a pending request and the engine
\* mutation fails, review_request returns true, the request is moved to the
\* history with status rejected and the failure note appended to the
\* reviewer's comments, and the schema registry is unchanged.
C5_FailedApprovalLeavesSchema ==
    (last.op = "review_request" /\ last.action = "approve" /\ last.success = Some(FALSE)) =>
       /\ last.ret = Some(TRUE)
       /\ The(last.request_id) \notin PendingIds
       /\ The(last.request_id) \in HistoryIds
       /\ LastRequest.status = "rejected"
       /\ Len(LastRequest.review_comments) = 2
       /\ LastRequest.review_comments[2] = ExecutionFailedSuffix
       /\ ~last.registry_changed

\* C6: a review_request call with action reject by an authorized reviewer
\* leaves the versions, their field maps, the current version and the
\* migration log as they were, and moves the request from pending to the
\* history with status rejected and the reviewer's comments.
C6_RejectLeavesRegistry ==
    /\ \A id \in PendingIds, u \in AllUsers, c \in AllComments :
          SpecAuthorized(u, requests[id].required_approval_level) =>
             \A x \in {review_request(Gate, Registry, id, u, "reject", c)} :
                /\ x.ret
                /\ x.R = Registry
                /\ id \notin SeqToSet(x.G.pending_requests)
                /\ x.G.approval_history = Append(approval_history, id)
                /\ x.G.requests[id].status = "rejected"
                /\ x.G.requests[id].reviewed_by = Some(u)
                /\ x.G.requests[id].review_comments = <<c>>
    /\ (last.op = "review_request" /\ last.action = "reject") =>
          /\ ~last.registry_changed
          /\ last.success = None

C6_Witness ==
    /\ last.op = "review_request"
    /\ last.action = "reject"
    /\ last.ret = Some(TRUE)
    /\ The(last.request_id) \in HistoryIds
    /\ The(last.request_id) \notin PendingIds
    /\ LastRequest.status = "rejected"
    /\ LastRequest.change_type = "add_field"

\* the part of C7 on creation and review: a request of medium, high or
\* critical risk is pending after its creation, which leaves the registry as
\* it was, and review_request changes the registry only on approve by a
\* reviewer authorized for the request's level.
C7_GatedUntilApproved ==
    /\ (last.op = "create_change_request" /\ LastRequest.risk_level # "low") =>
          /\ ~last.registry_changed
          /\ The(last.request_id) \in PendingIds
    /\ (last.op = "review_request" /\ last.registry_changed) =>
          /\ last.action = "approve"
          /\ LastRequest.reviewed_by # None
          /\ SpecAuthorized(The(LastRequest.reviewed_by), LastRequest.required_approval_level)

\* an add_field request with required = true
RequiredAddField(r) ==
    /\ r.change_type = "add_field"
    /\ "required" \in DOMAIN r.change_details
    /\ r.change_details["required"] = TRUE

\* the approval of pending request id by schema_reviewer returns true
ApprovalReturnsTrue(id) ==
    review_request(Gate, Registry, id, "schema_reviewer", "approve", "ok").ret

\* the approval of pending request id by schema_reviewer leaves the field in
\* the current version
ApprovalAddsField(id) ==
    \A x \in {review_request(Gate, Registry, id, "schema_reviewer", "approve", "ok")} :
       requests[id].field_name \in DOMAIN x.R.schemas[get_current_schema(x.R)].fields

\* the details name a field type of FieldType
TypedDetails(r) ==
    /\ "field_type" \in DOMAIN r.change_details
    /\ r.change_details["field_type"] \in FieldTypes

\* the call that produced the state was schema_reviewer's approval of an
\* add_field request with required = true
LastApprovedRequiredAdd ==
    /\ last.op = "review_request"
    /\ last.action = "approve"
    /\ RequiredAddField(LastRequest)
    /\ LastRequest.reviewed_by = Some("schema_reviewer")

C8_HistoryImmutable ==
    [][\/ approval_history' = approval_history /\ requests' = requests
       \/ /\ Len(approval_history') >= Len(approval_history)
          /\ SubSeq(approval_history', 1, Len(approval_history)) = approval_history
          /\ \A id \in HistoryIds : requests'[id] = requests[id]
          /\ SubSeq(get_approval_history(Gate, 0)', 1, Len(approval_history))
                = get_approval_history(Gate, 0)]_vars

C8_Witness ==
    /\ Len(approval_history) >= 2
    /\ last.op = "review_request"
    /\ last.ret = Some(TRUE)
    /\ The(last.request_id) = approval_history[Len(approval_history)]

\* the inputs of assess_change_risk the table is checked on
RiskChangeTypes == {"add_field", "remove_field", "modify_field", "rename_field"}

RiskFieldNames == {"content_id", "updated_at", "priority"}

RiskDetails ==
    {EmptyDict,
     [required |-> TRUE],
     [required |-> FALSE],
     [field_type |-> "string"],
     [field_type |-> "list", required |-> TRUE],
     [description |-> "updated"]}

\* the risk table
SpecRisk(change_type, field_name, details) ==
    IF field_name \in SeqToSet(CoreFieldNames) THEN "critical"
    ELSE CASE change_type \in {"remove_field", "rename_field"} -> "high"
           [] change_type = "add_field" ->
                IF "required" \in DOMAIN details /\ details["required"] = TRUE
                THEN "medium" ELSE "low"
           [] change_type = "modify_field" ->
                IF DOMAIN details \cap {"field_type", "required"} # {}
                THEN "medium" ELSE "low"

\* C9: in every state reached through operations assess_change_risk gives
\* the value of the risk table for (change_type, field_name, details):
\* critical for a core field name, otherwise high for remove_field and
\* rename_field, medium or low for add_field by required, medium or low for
\* modify_field by whether the details name field_type or required.
C9_RiskTable ==
    /\ \A ct \in RiskChangeTypes, fn \in RiskFieldNames, d \in RiskDetails :
          assess_change_risk(Registry, ct, fn, d) = SpecRisk(ct, fn, d)
    /\ \A id \in DOMAIN requests :
          requests[id].risk_level =
             SpecRisk(requests[id].change_type, requests[id].field_name,
                      requests[id].change_details)

C9_Witness ==
    /\ last.op = "create_change_request"
    /\ Cardinality(DOMAIN schemas) > 1
    /\ Len(migrations) > 0
    /\ Len(approval_history) > 0
    /\ LastRequest.change_type = "modify_field"
    /\ LastRequest.risk_level = "low"

\* the approval level table
SpecLevel(risk_level) ==
    CASE risk_level = "low" -> "automatic"
      [] risk_level = "medium" -> "reviewer"
      [] risk_level = "high" -> "admin"
      [] risk_level = "critical" -> "committee"

\* C10: the required approval level of every request is the image of its
\* risk level (low to automatic, medium to reviewer, high to admin, critical
\* to committee), and the review of a pending request passes the permission
\* check exactly when the reviewer is in the reviewer set for the reviewer
\* level and in the admin set for the admin and committee levels.
C10_LevelAndPermission ==
    /\ \A risk \in {"low", "medium", "high", "critical"} :
          determine_approval_level(risk) = SpecLevel(risk)
    /\ \A id \in DOMAIN requests :
          requests[id].required_approval_level = SpecLevel(requests[id].risk_level)
    /\ \A u \in AllUsers, level \in {"reviewer", "admin", "committee"} :
          _check_review_permission(u, level) = SpecAuthorized(u, level)
    /\ \A id \in PendingIds, u \in AllUsers :
          review_request(Gate, Registry, id, u, "reject", "ok").ret =
             SpecAuthorized(u, requests[id].required_approval_level)

C10_Witness ==
    /\ last.op = "review_request"
    /\ last.branch = "reviewed"
    /\ LastRequest.risk_level = "critical"
    /\ LastRequest.required_approval_level = "committee"
    /\ LastRequest.reviewed_by = Some("system_admin")
    /\ \E id \in PendingIds : requests[id].required_approval_level = "reviewer"

\* the impact flags by change type and details
SpecBreaking(change_type, details) ==
    \/ change_type = "remove_field"
    \/ change_type = "modify_field" /\ "field_type" \in DOMAIN details

SpecMigrationRequired(change_type, details) ==
    \/ change_type = "remove_field"
    \/ change_type = "modify_field" /\ "field_type" \in DOMAIN details
    \/ change_type = "add_field" /\ "required" \in DOMAIN details /\ details["required"] = TRUE

\* C11: the impact analysis of every request has breaking_change true exactly
\* for remove_field and for modify_field that changes the field type, and
\* data_migration_required true exactly for those and for add_field with
\* required = true.
C11_ImpactFlags ==
    \A id \in DOMAIN requests :
       /\ requests[id].impact_analysis.breaking_change =
             SpecBreaking(requests[id].change_type, requests[id].change_details)
       /\ requests[id].impact_analysis.data_migration_required =
             SpecMigrationRequired(requests[id].change_type, requests[id].change_details)

\* the request ids of a listing, in order
ListedIds(listing) == [i \in 1..Len(listing) |-> listing[i].request_id]

\* the listing for reviewer u holds exactly the pending requests u may review
ListsReviewable(u) ==
    \A ids \in {ListedIds(get_pending_requests(Gate, Some(u)))} :
       /\ SeqToSet(ids) =
             {id \in PendingIds : SpecAuthorized(u, requests[id].required_approval_level)}
       /\ Len(ids) = Cardinality(SeqToSet(ids))
       /\ SeqToSet(ids) \cap HistoryIds = {}

\* C12 as stated: get_pending_requests with a reviewer, the empty name
\* included, lists exactly the pending requests whose review by that reviewer
\* passes the permission check, get_pending_requests without a reviewer lists
\* every pending request, and no request of the history is listed.
C12_PendingVisibleToReviewer ==
    /\ ListedIds(get_pending_requests(Gate, None)) = pending_requests
    /\ \A u \in AllUsers \cup {""} : ListsReviewable(u)

\* C12 for non-empty reviewer names: get_pending_requests with a non-empty
\* reviewer lists exactly the pending requests whose review by that reviewer
\* passes the permission check, get_pending_requests without a reviewer or
\* with the empty name lists every pending request, and no request of the
\* history is listed.
C12_PendingVisibleToNamedReviewer ==
    /\ ListedIds(get_pending_requests(Gate, None)) = pending_requests
    /\ ListedIds(get_pending_requests(Gate, Some(""))) = pending_requests
    /\ \A u \in AllUsers : ListsReviewable(u)

C12_Witness ==
    /\ Len(pending_requests) = 2
    /\ Len(get_pending_requests(Gate, Some("schema_reviewer"))) = 1
    /\ Len(get_pending_requests(Gate, Some("system_admin"))) = 1
    /\ Len(get_pending_requests(Gate, Some("unauthorized_user"))) = 0
    /\ Len(get_pending_requests(Gate, None)) = 2

-----------------------------------------------------------------------------
(* Properties of the evolution engine *)

EngineOps == {"add_field", "remove_field", "modify_field"}

\* the version get_current_schema returns
Current == get_current_schema(Registry)

\* C13: when add_field, remove_field or modify_field returns false the
\* registry is as it was before the call: the same versions, the same current
\* version, the same field maps and the same migration log.
C13_FalseReturnLeavesRegistry ==
    (last.op \in EngineOps /\ last.ret = Some(FALSE)) => ~last.registry_changed

\* C14: for every core field name, in every reachable state, remove_field
\* returns false, and the field count of the current schema, the current
\* version and the field's deprecated flag are as before the call.
C14_CoreFieldsNotRemovable ==
    /\ \A cur \in {Current} :
          \A n \in SeqToSet(CoreFieldNames), tv \in TargetVersions :
             \A x \in {remove_field(Registry, n, tv)} :
                /\ ~x.ret
                /\ x.R.schemas = schemas
                /\ DOMAIN x.R.schemas[cur].fields = DOMAIN schemas[cur].fields
                /\ x.R.field_objs[x.R.schemas[cur].fields[n]].deprecated
                      = field_objs[schemas[cur].fields[n]].deprecated
                /\ x.R = Registry
    /\ (last.op = "remove_field" /\ last.field_name \in SeqToSet(CoreFieldNames)) =>
          last.ret = Some(FALSE) /\ ~last.registry_changed

C14_Witness ==
    /\ last.op = "remove_field"
    /\ last.field_name = "content_id"
    /\ last.ret = Some(FALSE)
    /\ Cardinality(DOMAIN schemas) > 1
    /\ "priority" \in CurrentFields
    /\ ~field_objs[schemas[Current].fields["content_id"]].deprecated

\* the version a call with argument target_version applies to
Resolved(target_version, increment_type) ==
    IF target_version = None
    THEN _increment_version(Current, increment_type)
    ELSE The(target_version)

\* the field map of version t once the call has made sure that t exists
FieldsAt(t) ==
    IF t \in DOMAIN schemas THEN schemas[t].fields ELSE schemas[Current].fields

\* remove_field on a non-core field of the target version returns true and
\* leaves the field in the map, deprecated in the target version
C15_RemoveDeprecates ==
    \A fn \in FieldNames \ SeqToSet(CoreFieldNames), tv \in TargetVersions :
       \A t \in {Resolved(tv, "minor")} :
          fn \in DOMAIN FieldsAt(t) =>
             \A x \in {remove_field(Registry, fn, tv)} :
                /\ x.ret
                /\ fn \in DOMAIN x.R.schemas[t].fields
                /\ x.R.field_objs[x.R.schemas[t].fields[fn]].deprecated
                /\ x.R.field_objs[x.R.schemas[t].fields[fn]].deprecated_in_version = Some(t)

\* no version and no field name of a version is removed by a step
C15_NamesKept ==
    \A v \in DOMAIN schemas :
       /\ v \in DOMAIN schemas'
       /\ DOMAIN schemas[v].fields \subseteq DOMAIN schemas'[v].fields

\* C15: remove_field on an existing non-core field is a soft delete (it
\* returns true and the field stays in the target version's map with
\* deprecated = true and deprecated_in_version = the target version), and no
\* field name is ever removed from the field map of any version.
C15_SoftDelete == []C15_RemoveDeprecates /\ [][C15_NamesKept]_vars

C15_Witness ==
    /\ last.op = "remove_field"
    /\ last.ret = Some(TRUE)
    /\ last.field_name = "priority"
    /\ "priority" \in DOMAIN schemas[The(last.target_version)].fields
    /\ field_objs[schemas[The(last.target_version)].fields["priority"]].deprecated
    /\ field_objs[schemas[The(last.target_version)].fields["priority"]].deprecated_in_version
          = last.target_version

\* C16: in every reachable state every schema version of the registry has
\* all five core fields of version 1.0.0 in its field map.
C16_CoreFieldsInEveryVersion ==
    \A v \in DOMAIN schemas :
       SeqToSet(CoreFieldNames) \subseteq DOMAIN schemas[v].fields

C16_Witness ==
    /\ Cardinality(DOMAIN schemas) >= 3
    /\ \E v \in DOMAIN schemas :
          /\ v # BaseVersion
          /\ "priority" \in DOMAIN schemas[v].fields
          /\ field_objs[schemas[v].fields["priority"]].deprecated
    /\ \E v \in DOMAIN schemas :
          field_objs[schemas[v].fields["content_id"]].validation.required

\* C17: a successful add_field, remove_field or modify_field applies to a
\* version strictly greater than the version that was current before the
\* call, and the current version never decreases.
C17_Step ==
    /\ (last'.op \in EngineOps /\ last'.ret = Some(TRUE)) =>
          TupleLess(_parse_version(Current), _parse_version(The(last'.target_version)))
    /\ ~TupleLess(_parse_version(get_current_schema(
                     [schemas |-> schemas', field_objs |-> field_objs',
                      migrations |-> migrations', core_fields |-> core_fields',
                      schemas_json |-> schemas_json',
                      migrations_json |-> migrations_json'])),
                  _parse_version(Current))

C17_AppliedAboveBase == [][C17_Step]_vars

VersionSamples ==
    {<<"1", ".", "0", ".", "0">>, <<"1", ".", "9", ".", "0">>,
     <<"1", ".", "1", "0", ".", "0">>, <<"2", ".", "3", ".", "4">>,
     <<"0", ".", "0", ".", "9">>, <<"1", ".", "9", ".", "9">>}

\* the increments as the specification states them, on version tuples
SpecIncrement(t, kind) ==
    CASE kind = "major" -> <<t[1] + 1, 0, 0>>
      [] kind = "minor" -> <<t[1], t[2] + 1, 0>>
      [] kind = "patch" -> <<t[1], t[2], t[3] + 1>>

\* the version string whose components are those of the tuple t
VersionOf(t) == FormatVersion(t[1], t[2], t[3])

\* the calls without a target version in the current state: tminor and
\* tpatch are the current version with the minor increment and with the
\* patch increment
C18_Calls(tminor, tpatch) ==
    \A fn \in FieldNames :
       /\ \A f \in NewFields(fn) :
             \A x \in {add_field(Registry, f, None)} :
                x.ret =>
                   /\ tminor \in DOMAIN x.R.schemas
                   /\ fn \in DOMAIN x.R.schemas[tminor].fields
                   /\ x.R.field_objs[x.R.schemas[tminor].fields[fn]].added_in_version = tminor
                   /\ get_current_schema(x.R) = tminor
       /\ \A x \in {remove_field(Registry, fn, None)} :
             x.ret =>
                /\ tminor \in DOMAIN x.R.schemas
                /\ x.R.field_objs[x.R.schemas[tminor].fields[fn]].deprecated_in_version
                      = Some(tminor)
                /\ get_current_schema(x.R) = tminor
       /\ \A f \in {g \in NewFields(fn) : g.validation.required} :
             \A x \in {modify_field(Registry, fn, f, None)} :
                x.ret =>
                   /\ tpatch \in DOMAIN x.R.schemas
                   /\ x.R.field_objs[x.R.schemas[tpatch].fields[fn]].validation = f.validation
                   /\ get_current_schema(x.R) = tpatch

IncrementsAsSpecified ==
    /\ \A v \in VersionSamples, kind \in {"major", "minor", "patch"} :
          \A w \in {_increment_version(v, kind)} :
             /\ validate_version(w)
             /\ _parse_version(w) = SpecIncrement(_parse_version(v), kind)
    /\ _increment_version(<<"1", ".", "9", ".", "0">>, "minor")
          = <<"1", ".", "1", "0", ".", "0">>

\* C18: without a target version add_field and remove_field apply to the
\* current version with minor incremented and patch reset to 0, modify_field
\* to the current version with patch incremented (a major increment resets
\* minor and patch); the added field has added_in_version equal to that
\* version, and that version becomes the current version.
C18_DefaultTarget ==
    /\ IncrementsAsSpecified
    /\ \A cur \in {_parse_version(Current)} :
          /\ _parse_version(_increment_version(Current, "major")) = <<cur[1] + 1, 0, 0>>
          /\ \A tminor \in {VersionOf(SpecIncrement(cur, "minor"))},
                tpatch \in {VersionOf(SpecIncrement(cur, "patch"))} :
                C18_Calls(tminor, tpatch)
    /\ (last.op \in {"add_field", "remove_field"} /\ last.ret = Some(TRUE)
          /\ last.target_version \notin TargetVersions) =>
             /\ Current = The(last.target_version)
             /\ _parse_version(Current)[3] = 0
             /\ last.op = "add_field" =>
                   field_objs[schemas[Current].fields[last.field_name]].added_in_version = Current

\* a field added without a target version on top of a patch version
C18_Witness ==
    /\ last.op = "add_field"
    /\ last.ret = Some(TRUE)
    /\ last.target_version = Some(<<"1", ".", "1", ".", "0">>)
    /\ <<"1", ".", "0", ".", "1">> \in DOMAIN schemas
    /\ Current = <<"1", ".", "1", ".", "0">>
    /\ field_objs[schemas[Current].fields["priority"]].added_in_version = Current

\* C19: the migration log is append-only with one entry per mutating
\* operation: a successful add_field, remove_field or modify_field, for any
\* target version, appends exactly one record naming the operation and the
\* field, a call that returns false appends none, and existing records stay
\* as they are.
C19_Step ==
    /\ (last'.op \in EngineOps /\ last'.ret = Some(TRUE)) =>
          /\ Len(migrations') = Len(migrations) + 1
          /\ SubSeq(migrations', 1, Len(migrations)) = migrations
          /\ migrations'[Len(migrations')].migration_type = last'.op
          /\ migrations'[Len(migrations')].field_name = last'.field_name
    /\ (last'.op \in EngineOps /\ last'.ret = Some(FALSE)) => migrations' = migrations

C19_OneRecordPerMutation == [][C19_Step]_vars

\* the integer components of a version string
Components(v) == [i \in 1..3 |-> int(split(v)[i])]

\* a is above b in numeric semantic-version order
SemverAbove(a, b) ==
    \E i \in 1..3 :
       /\ Components(a)[i] > Components(b)[i]
       /\ \A j \in 1..(i - 1) : Components(a)[j] = Components(b)[j]

ActiveVersions == {v \in DOMAIN schemas : schemas[v].is_active}

\* C20: get_current_schema returns the version greatest in numeric
\* semantic-version order among the active versions (1.10.0 is above 1.9.0),
\* and version 1.0.0 when no version is active.
C20_CurrentIsGreatestActive ==
    /\ SemverAbove(<<"1", ".", "1", "0", ".", "0">>, <<"1", ".", "9", ".", "0">>)
    /\ \A c \in {get_current_schema(Registry)} :
          IF ActiveVersions = {} THEN c = BaseVersion
          ELSE /\ c \in ActiveVersions
               /\ \A w \in ActiveVersions \ {c} : SemverAbove(c, w)
    /\ last.op = "get_current_schema" =>
          /\ The(last.version) \in DOMAIN schemas
          /\ IF ActiveVersions = {} THEN last.version = Some(BaseVersion)
             ELSE /\ The(last.version) \in ActiveVersions
                  /\ \A w \in ActiveVersions \ last.version : SemverAbove(The(last.version), w)

C20_Witness ==
    /\ last.op = "get_current_schema"
    /\ last.version = Some(<<"1", ".", "1", "0", ".", "0">>)
    /\ <<"1", ".", "9", ".", "0">> \in ActiveVersions
    /\ <<"2", ".", "0", ".", "0">> \in DOMAIN schemas \ ActiveVersions

\* C27: a successful add_field, remove_field or modify_field applied to a
\* newly created version leaves every version that existed before unchanged:
\* the same field names, and for each field the same type, validation,
\* deprecated flag and deprecated_in_version.
C27_Step ==
    (/\ last'.op \in EngineOps
     /\ last'.ret = Some(TRUE)
     /\ The(last'.target_version) \notin DOMAIN schemas) =>
       \A v \in DOMAIN schemas :
          /\ DOMAIN schemas'[v].fields = DOMAIN schemas[v].fields
          /\ \A n \in DOMAIN schemas[v].fields :
                \A old \in {field_objs[schemas[v].fields[n]]},
                   new \in {field_objs'[schemas'[v].fields[n]]} :
                   /\ new.field_type = old.field_type
                   /\ new.validation = old.validation
                   /\ new.deprecated = old.deprecated
                   /\ new.deprecated_in_version = old.deprecated_in_version

C27_OlderVersionsUnchanged == [][C27_Step]_vars

\* the record a call without target version appended, if it appended one
Appended(R) == IF Len(R.migrations) = Len(migrations) + 1
               THEN Some(R.migrations[Len(R.migrations)]) ELSE None

\* the record has from_version = the version current before the call and
\* to_version = to, the new version, above it
FromCurrentTo(rec, to) ==
    /\ rec # None
    /\ The(rec).from_version = Current
    /\ The(rec).to_version = to
    /\ TupleLess(_parse_version(The(rec).from_version), _parse_version(The(rec).to_version))

\* C28: every migration record appended by add_field, remove_field or
\* modify_field called without a target version has from_version equal to
\* the version current before the call and to_version equal to the newly
\* created version, so from_version is strictly below to_version.
C28_MigrationFromCurrent ==
    \A fn \in FieldNames :
       /\ \A f \in NewFields(fn) :
             \A x \in {add_field(Registry, f, None)} :
                x.ret => FromCurrentTo(Appended(x.R), _increment_version(Current, "minor"))
       /\ \A x \in {remove_field(Registry, fn, None)} :
             x.ret => FromCurrentTo(Appended(x.R), _increment_version(Current, "minor"))
       /\ \A f \in NewFields(fn) :
             \A x \in {modify_field(Registry, fn, f, None)} :
                x.ret => FromCurrentTo(Appended(x.R), _increment_version(Current, "patch"))

ApprovalLevels == {"reviewer", "admin", "committee"}

\* C29: review authority is monotonic in the approval level: whoever may
\* review admin-level or committee-level requests may review reviewer-level
\* requests, so for every pending request the reviewers allowed at a higher
\* level are among those allowed at a lower level.
C29_AuthorityMonotonic ==
    /\ \A u \in AllUsers :
          (_check_review_permission(u, "admin") \/ _check_review_permission(u, "committee"))
             => _check_review_permission(u, "reviewer")
    /\ \A id \in PendingIds, u \in AllUsers :
          (/\ requests[id].required_approval_level \in {"admin", "committee"}
           /\ _check_review_permission(u, requests[id].required_approval_level))
             => _check_review_permission(u, "reviewer")

\* C25: at every point between operations, a manager reloaded from the two
\* persisted artifacts has the same versions, the same field maps, the same
\* current version and the same migration log as the registry in memory.
C25_ReloadEqualsMemory ==
    \A L \in {DynamicSchemaManager(schemas_json, migrations_json)} :
       /\ DOMAIN L.schemas = DOMAIN schemas
       /\ \A v \in DOMAIN schemas \cap DOMAIN L.schemas :
             model_dump(L, v) = model_dump(Registry, v)
       /\ get_current_schema(L) = Current
       /\ L.migrations = migrations

\* change details of modify-field requests without a validation payload
ModifyDetails ==
    {[description |-> "updated"], [required |-> TRUE], [required |-> FALSE],
     [field_type |-> "list"]}

\* the modification kept what the details d did not supply
ModifiedOnlyAsAsked(old, new, d) ==
    /\ new.added_in_version = old.added_in_version
    /\ new.is_core = old.is_core
    /\ "required" \in DOMAIN d => new.validation.required = d["required"]
    /\ "validation" \notin DOMAIN d =>
          /\ "required" \notin DOMAIN d => new.validation.required = old.validation.required
          /\ [new.validation EXCEPT !.required = FALSE]
                = [old.validation EXCEPT !.required = FALSE]
          /\ new.deprecated = old.deprecated

\* C30: a modify-field request executed through the gate changes only the
\* attributes its change details supply: added_in_version and is_core are
\* preserved, a required value in the details becomes the field's required
\* flag, and without a validation payload the previous required flag,
\* validation rules and deprecated status stay as they were.
C30_ModifyKeepsTheRest ==
    \A fn \in FieldNames, d \in ModifyDetails :
       \A x \in {_execute_change(Registry, [change_type |-> "modify_field",
                                            field_name |-> fn,
                                            change_details |-> d])} :
          x.ret =>
             ModifiedOnlyAsAsked(
                field_objs[schemas[Current].fields[fn]],
                x.R.field_objs[x.R.schemas[get_current_schema(x.R)].fields[fn]],
                d)

-----------------------------------------------------------------------------
(* Properties of validation and of the read-only calls *)

\* the errors the specification lists for data against version v
ExpectedErrors(data, v) ==
    LET fields == schemas[v].fields
        Field(n) == field_objs[fields[n]]
        checked == {n \in DOMAIN fields : ~Field(n).deprecated}
    IN {ValidationError("missing", n) :
           n \in {m \in checked : Field(m).validation.required /\ m \notin DOMAIN data}}
       \cup UNION {SeqToSet(_validate_field_value(Field(n), data[n])) :
                      n \in checked \cap DOMAIN data}
       \cup {ValidationError("unknown", k) : k \in DOMAIN data \ DOMAIN fields}

\* C21: validate_data returns valid exactly when its error list is empty;
\* the list holds one error per non-deprecated required field absent from
\* the record, the value-check errors of each non-deprecated field present,
\* and one unknown-field error per key outside the version's field map;
\* deprecated fields are neither required nor checked, and a version that
\* does not exist gives (false, one error).
C21_ValidateData ==
    \A data \in TestRecords, sv \in SchemaVersionArgs :
       \A x \in {validate_data(Registry, data, sv)} :
          /\ x.valid = (x.errors = <<>>)
          /\ IF sv # None /\ The(sv) \notin DOMAIN schemas
             THEN ~x.valid /\ Len(x.errors) = 1
             ELSE \A expected \in {ExpectedErrors(data, IF sv = None THEN Current ELSE The(sv))} :
                     /\ SeqToSet(x.errors) = expected
                     /\ Len(x.errors) = Cardinality(expected)

\* a record whose priority has the wrong type validates once priority is
\* deprecated
C21_Witness ==
    /\ last.op = "validate_data"
    /\ The(last.args) = <<("priority" :> PyInt(5)) @@ CompliantRecord, None>>
    /\ "priority" \in CurrentFields
    /\ field_objs[schemas[Current].fields["priority"]].deprecated
    /\ The(last.result) = [valid |-> TRUE, errors |-> <<>>]

TestValidations ==
    [required : {FALSE},
     min_length : {None, Some(2)},
     max_length : {None, Some(0), Some(2)},
     pattern : {None, Some(""), Some("[a-z]+$")},
     min_value : {None, Some(0), Some(3)},
     max_value : {None, Some(0), Some(3)},
     allowed_values : {None, Some(<<PyStr(<<"a">>), PyInt(5)>>)}]

TestValues ==
    {PyStr(<<>>), PyStr(<<"a">>), PyStr(<<"a", "1", "b">>), PyInt(0), PyInt(5),
     PyFloat(5), PyBool(TRUE), PyDateTime(0), PyList, PyDict}

\* the runtime type matches the field type
SpecTypeMatches(field_type, type) ==
    CASE field_type = "string" -> type = "str"
      [] field_type = "integer" -> type = "int"
      [] field_type = "float" -> type = "float"
      [] field_type = "boolean" -> type = "bool"
      [] field_type = "datetime" -> type = "datetime"
      [] field_type = "list" -> type = "list"
      [] field_type = "dict" -> type = "dict"
      [] field_type = "json" -> type \in {"dict", "list", "str"}

\* the two values are the same value: 5 and 5.0 are
SameValue(a, b) ==
    \/ a.type \in {"int", "float"} /\ b.type \in {"int", "float"} /\ a.val = b.val
    \/ a.type = b.type /\ a.val = b.val

\* the rules of the field that the value violates
SpecViolations(field, value) ==
    LET rules == field.validation
    IN (IF field.field_type = "string"
        THEN {k \in {"min_length"} :
                 rules.min_length # None /\ Len(value.val) < The(rules.min_length)}
             \cup {k \in {"max_length"} :
                      rules.max_length # None /\ Len(value.val) > The(rules.max_length)}
             \cup {k \in {"pattern"} :
                      rules.pattern # None /\ ~re_match(The(rules.pattern), value.val)}
        ELSE {})
       \cup (IF field.field_type \in {"integer", "float"}
             THEN {k \in {"min_value"} :
                      rules.min_value # None /\ value.val < The(rules.min_value)}
                  \cup {k \in {"max_value"} :
                           rules.max_value # None /\ value.val > The(rules.max_value)}
             ELSE {})
       \cup {k \in {"allowed_values"} :
                /\ rules.allowed_values # None
                /\ \A i \in 1..Len(The(rules.allowed_values)) :
                      ~SameValue(value, The(rules.allowed_values)[i])}

\* the errors returned for the value are those the specification lists
ValueChecked(field, value) ==
    \A errs \in {_validate_field_value(field, value)} :
       IF ~SpecTypeMatches(field.field_type, value.type)
       THEN errs = <<ValidationError("type", field.name)>>
       ELSE /\ {errs[i].kind : i \in 1..Len(errs)} = SpecViolations(field, value)
            /\ Len(errs) = Cardinality(SpecViolations(field, value))

\* C22: _validate_field_value returns exactly one type-mismatch error and
\* checks nothing else when the value's type does not match the field type;
\* when it matches, it reports every violated rule: minimum length, maximum
\* length and pattern for string fields, minimum and maximum value for
\* numeric fields, membership in the allowed values for any field.
C22_ValueChecks ==
    /\ \A i \in DOMAIN field_objs, value \in TestValues :
          ValueChecked(field_objs[i], value)
    /\ \A field_type \in FieldTypes, rules \in TestValidations, value \in TestValues :
          ValueChecked(SchemaField("f", field_type, "", rules, FALSE, BaseVersion), value)

\* C23: against the bootstrap schema 1.0.0 the record with content_id, title
\* and content_type as strings and created_at and updated_at as timestamp
\* strings validates as (true, []), and the same record without content_id
\* validates as false with exactly one error, which mentions content_id.
C23_BootstrapRecord ==
    /\ validate_data(Registry, TimestampStringRecord, Some(BaseVersion))
          = [valid |-> TRUE, errors |-> <<>>]
    /\ \A x \in {validate_data(Registry, WithoutKey(TimestampStringRecord, "content_id"),
                               Some(BaseVersion))} :
          /\ ~x.valid
          /\ Len(x.errors) = 1
          /\ x.errors[1].field = "content_id"

ReadOps ==
    {"validate_data", "analyze_schema_usage", "suggest_schema_improvements",
     "get_schema_evolution_history", "get_pending_requests", "get_approval_history"}

\* C24: validate_data, analyze_schema_usage, suggest_schema_improvements,
\* get_schema_evolution_history, get_pending_requests and
\* get_approval_history change nothing in the registry or the gate, the same
\* call repeated with no other call in between returns the same result, and
\* a compliant record validates as (true, []) on every call.
C24_Step ==
    last'.op \in ReadOps =>
       /\ regVars' = regVars
       /\ gateVars' = gateVars
       /\ (last.op = last'.op /\ last.args = last'.args) => last'.result = last.result
       /\ (/\ last'.op = "validate_data"
           /\ The(last'.args)[1] = CompliantRecord
           /\ The(last'.args)[2] \in {None, Some(BaseVersion)})
             => The(last'.result) = [valid |-> TRUE, errors |-> <<>>]

C24_ReadOnly == [][C24_Step]_vars

C24_Witness ==
    /\ last.op = "get_approval_history"
    /\ Len(The(last.result)) > 0
    /\ pending_requests # <<>>
    /\ Cardinality(DOMAIN schemas) > 1

-----------------------------------------------------------------------------
(* Properties of concurrent calls *)

\* the registry by value
RegistryValue(R) ==
    [schemas |-> [v \in DOMAIN R.schemas |-> model_dump(R, v)],
     migrations |-> R.migrations,
     schemas_json |-> R.schemas_json,
     migrations_json |-> R.migrations_json]

\* the two calls run one after the other, in either order
SequentialResults ==
    {add_field(add_field(InitialRegistry, ThreadField(o[1]), None).R,
               ThreadField(o[2]), None).R : o \in {<<1, 2>>, <<2, 1>>}}

\* every field of the snapshot that is not a core field has its migration
\* record in the log
LogMatchesSnapshot(snapshot, log) ==
    \A v \in DOMAIN snapshot :
       \A n \in DOMAIN snapshot[v].fields \ SeqToSet(CoreFieldNames) :
          \E i \in 1..Len(log) : log[i].field_name = n

\* C26: mutating calls run as critical sections, so two concurrent calls
\* leave the registry as some sequential order of them does: two concurrent
\* add_field calls for different names both return true and the registry
\* equals that of running one after the other, and a reload never sees a
\* schema snapshot without its matching migration log.
C26_CriticalSections ==
    /\ (\A t \in Threads : threads[t].pc = "done") =>
          /\ \A t \in Threads : threads[t].ret = Some(TRUE)
          /\ RegistryValue(Registry) \in {RegistryValue(S) : S \in SequentialResults}
    /\ LogMatchesSnapshot(schemas_json, migrations_json)
    /\ last.op = "reload" =>
          \A n \in The(last.result).fields \ SeqToSet(CoreFieldNames) :
             \E i \in 1..Len(The(last.result).migrations) :
                The(last.result).migrations[i].field_name = n

====
